---- MODULE Spec2Model ----
(***************************************************************************)
(* Model of src/src/data/theorytab.py: class Theorytab, which parses a     *)
(* hooktheory theorytab xml document and produces a list of clips.         *)
(*                                                                         *)
(* Numbers.  A numeric text is held in halves: the integer h stands for    *)
(* the real number h/2 ("2.5" is h = 5), so that float(), round() and the  *)
(* sums of _extract_timing are exact.  round() is Python 3's (the          *)
(* repository uses keyword-only arguments): round half to even.            *)
(*                                                                         *)
(* Documents.  An element found by bs4's find() is a record; elem = FALSE  *)
(* stands for Python's None (no such element), has = FALSE for an element  *)
(* whose .string is None (no text).  A bs4 Tag is always truthy, so        *)
(* `not element` is ~elem.                                                 *)
(***************************************************************************)
EXTENDS Integers, Sequences, FiniteSets, TLC

\* ------------------------------------------------------------------ bounds

\* Most element children of a <sections> collection.
MaxSections == 2
\* Most numMeasures (and most numBeats) elements under one data section.
MaxFields == 2

\* ------------------------------------------------------- program constants

\* The repetition count of YOUTUBE_ID_REGEX.
IdLength == 11

\* ----------------------------------------------------------------- helpers

\* The sequences over S of length at most n.
SeqUpTo(S, n) == UNION {[1..k -> S] : k \in 0..n}

\* zip() stops at the shorter of its two lists.
Min(a, b) == IF a <= b THEN a ELSE b

\* ------------------------------------------------------------- text fields

\* A numeric field as find() and .string see it.
NoElem == [elem |-> FALSE, has |-> FALSE, isnum |-> FALSE, h |-> 0]
NoText == [elem |-> TRUE, has |-> FALSE, isnum |-> FALSE, h |-> 0]
\* Text that float() rejects ("abc", or the single blank bs4 keeps of a
\* whitespace-only text): a non-empty string, hence truthy.
BadText == [elem |-> TRUE, has |-> TRUE, isnum |-> FALSE, h |-> 0]
Num(h) == [elem |-> TRUE, has |-> TRUE, isnum |-> TRUE, h |-> h]

\* A string field (key, version).
NoStr == [elem |-> FALSE, has |-> FALSE, s |-> ""]
EmptyStr == [elem |-> TRUE, has |-> FALSE, s |-> ""]
Str(s) == [elem |-> TRUE, has |-> TRUE, s |-> s]

\* The YouTubeID field: its text is a sequence of characters.
NoId == [elem |-> FALSE, has |-> FALSE, s |-> <<>>]
EmptyId == [elem |-> TRUE, has |-> FALSE, s |-> <<>>]
Id(s) == [elem |-> TRUE, has |-> TRUE, s |-> s]

\* ------------------------------------------------------- Python primitives

\* int(round(x)) for x = h/2: round half to even.
Round(h) ==
  LET q == h \div 2
  IN  IF h % 2 = 0 THEN q ELSE IF q % 2 = 0 THEN q ELSE q + 1

\* ------------------------------------------------------------ class tables

Digits == {"0", "1", "2", "3", "4", "5", "6", "7", "8", "9"}

Upper ==
  {"A", "B", "C", "D", "E", "F", "G", "H", "I", "J", "K", "L", "M",
   "N", "O", "P", "Q", "R", "S", "T", "U", "V", "W", "X", "Y", "Z"}

Lower ==
  {"a", "b", "c", "d", "e", "f", "g", "h", "i", "j", "k", "l", "m",
   "n", "o", "p", "q", "r", "s", "t", "u", "v", "w", "x", "y", "z"}

\* The character class [0-9A-Za-z-_].
IdChars == Digits \cup Upper \cup Lower \cup {"-", "_"}

\* YOUTUBE_ID_REGEX.match(s): re.match anchors at the start of s only.
YOUTUBE_ID_REGEX_match(s) ==
  Len(s) >= IdLength /\ \A k \in 1..IdLength : s[k] \in IdChars

\* The table with B# one above B instead of wrapped to 0.
NOTE_TO_PITCH_CLASS_Slip ==
  [n \in {"Cb", "C", "C#", "Db", "D", "D#", "Eb", "E", "E#", "Fb", "F",
          "F#", "Gb", "G", "G#", "Ab", "A", "A#", "Bb", "B", "B#"} |->
     CASE n = "Cb" -> 11 [] n = "C" -> 0 [] n = "C#" -> 1 [] n = "Db" -> 1
       [] n = "D" -> 2 [] n = "D#" -> 3 [] n = "Eb" -> 3 [] n = "E" -> 4
       [] n = "E#" -> 5 [] n = "Fb" -> 4 [] n = "F" -> 5 [] n = "F#" -> 6
       [] n = "Gb" -> 6 [] n = "G" -> 7 [] n = "G#" -> 8 [] n = "Ab" -> 8
       [] n = "A" -> 9 [] n = "A#" -> 10 [] n = "Bb" -> 10 [] n = "B" -> 11
       [] n = "B#" -> 12]

NOTE_TO_PITCH_CLASS ==
  [n \in {"Cb", "C", "C#", "Db", "D", "D#", "Eb", "E", "E#", "Fb", "F",
          "F#", "Gb", "G", "G#", "Ab", "A", "A#", "Bb", "B", "B#"} |->
     CASE n = "Cb" -> 11 [] n = "C" -> 0 [] n = "C#" -> 1 [] n = "Db" -> 1
       [] n = "D" -> 2 [] n = "D#" -> 3 [] n = "Eb" -> 3 [] n = "E" -> 4
       [] n = "E#" -> 5 [] n = "Fb" -> 4 [] n = "F" -> 5 [] n = "F#" -> 6
       [] n = "Gb" -> 6 [] n = "G" -> 7 [] n = "G#" -> 8 [] n = "Ab" -> 8
       [] n = "A" -> 9 [] n = "A#" -> 10 [] n = "Bb" -> 10 [] n = "B" -> 11
       [] n = "B#" -> 0]

MODE_TO_NAME ==
  [m \in 1..7 |->
     CASE m = 1 -> "Major/Ionian" [] m = 2 -> "Dorian" [] m = 3 -> "Phrygian"
       [] m = 4 -> "Lydian" [] m = 5 -> "Mixolydian"
       [] m = 6 -> "Minor/Aeolian" [] m = 7 -> "Locrian"]

\* ------------------------------------------------------------- diagnostics

Error(msg) == [level |-> "error", msg |-> msg]
Warning(msg) == [level |-> "warning", msg |-> msg]

\* What an extractor does: return a value (ok), return None (none), or let
\* the exception of float() propagate (raise).  log is what it logged.
Ok(v, l) == [kind |-> "ok", val |-> v, log |-> l]
None(v, l) == [kind |-> "none", val |-> v, log |-> l]
Raise(v) == [kind |-> "raise", val |-> v, log |-> <<>>]

\* ---------------------------------------------------------------- elements

\* The first element child of a sections collection (NavigableStrings have
\* no descendants) whose own field f exists, in document order.
RECURSIVE FirstWith(_, _, _)
FirstWith(contents, f, absent) ==
  IF contents = <<>> THEN absent
  ELSE IF ~Head(contents).text /\ Head(contents)[f].elem THEN Head(contents)[f]
  ELSE FirstWith(Tail(contents), f, absent)

\* element.find(f): the first descendant named f in document order.  The
\* element's own fields precede its <sections> child.
Find(element, f, absent) ==
  IF element[f].elem THEN element[f]
  ELSE IF element.sections.elem THEN FirstWith(element.sections.contents, f, absent)
  ELSE absent

\* --------------------------------------------------------------- extractors

ExtractBeatsPerMeasure(meta_element) ==
  LET beats_element == Find(meta_element, "beats_in_measure", NoElem)
  IN  IF ~beats_element.elem \/ ~beats_element.has
      THEN None(0, <<Error("has no beats_in_measure element")>>)
      ELSE IF ~beats_element.isnum THEN Raise(0)
      ELSE LET beats_per_measure == Round(beats_element.h)
           IN  IF beats_per_measure <= 0
               THEN None(0, <<Error("beats_per_measure is %d")>>)
               ELSE Ok(beats_per_measure, <<>>)

ExtractTonic(meta_element) ==
  LET key_element == Find(meta_element, "key", NoStr)
  IN  IF ~key_element.elem \/ ~key_element.has
      THEN None(0, <<Error("has no key element")>>)
      ELSE IF key_element.s \notin DOMAIN NOTE_TO_PITCH_CLASS
      THEN None(0, <<Error("has unrecognized key %s")>>)
      ELSE Ok(NOTE_TO_PITCH_CLASS[key_element.s], <<>>)

ExtractMode(meta_element) ==
  LET mode_element == Find(meta_element, "mode", NoElem)
  IN  IF ~mode_element.elem \/ ~mode_element.has
      THEN Ok(1, <<Warning("has no mode element, assuming major")>>)
      ELSE IF ~mode_element.isnum THEN Raise(0)
      ELSE LET mode == Round(mode_element.h)
           IN  IF mode \notin DOMAIN MODE_TO_NAME
               THEN None(0, <<Error("has unrecognized mode %d")>>)
               ELSE Ok(mode, <<>>)

ExtractYoutubeId(meta_element) ==
  LET youtube_element == Find(meta_element, "YouTubeID", NoId)
  IN  IF ~youtube_element.elem \/ ~youtube_element.has
         \/ youtube_element.s = <<"n", "u", "l", "l">>
      THEN None(<<>>, <<Error("has no YouTube element")>>)
      ELSE IF ~YOUTUBE_ID_REGEX_match(youtube_element.s)
      THEN None(<<>>, <<Error("has an invalid YouTube id %s")>>)
      ELSE Ok(youtube_element.s, <<>>)

\* (start_time, end_time) in halves of a second.
ExtractTiming(meta_section) ==
  LET global_start == Find(meta_section, "global_start", NoElem)
      active_start == Find(meta_section, "active_start", NoElem)
      active_stop == Find(meta_section, "active_stop", NoElem)
  IN  IF ~global_start.elem \/ ~active_start.elem \/ ~active_stop.elem
         \/ ~global_start.has \/ ~active_start.has \/ ~active_stop.has
      THEN None(<<0, 0>>,
                <<Error("is missing global_start, active_start, or active_stop")>>)
      ELSE IF ~global_start.isnum \/ ~active_start.isnum \/ ~active_stop.isnum
      THEN Raise(<<0, 0>>)
      ELSE Ok(<<global_start.h + active_start.h,
                global_start.h + active_stop.h>>, <<>>)

\* The loop with `continue` where the code resets the sum and breaks.
RECURSIVE SumSkipEmpty(_, _)
SumSkipEmpty(elements, sum) ==
  IF elements = <<>> THEN Ok(sum, <<>>)
  ELSE IF ~Head(elements).has THEN SumSkipEmpty(Tail(elements), sum)
  ELSE IF ~Head(elements).isnum THEN Raise(0)
  ELSE SumSkipEmpty(Tail(elements), sum + Round(Head(elements).h))

\* One of the two for loops of _extract_num_beats over find_all(...): the
\* running sum, reset to 0 by the break at the first element without text.
RECURSIVE SumLoop(_, _)
SumLoop(elements, sum) ==
  IF elements = <<>> THEN Ok(sum, <<>>)
  ELSE IF ~Head(elements).has THEN Ok(0, <<>>)
  ELSE IF ~Head(elements).isnum THEN Raise(0)
  ELSE SumLoop(Tail(elements), sum + Round(Head(elements).h))

ExtractNumBeats(data_section, beats_per_measure) ==
  LET num_measures == SumLoop(data_section.numMeasures, 0)
  IN  IF num_measures.kind = "raise" THEN Raise(0)
      ELSE IF num_measures.val # 0
      THEN Ok(num_measures.val * beats_per_measure, <<>>)
      ELSE LET num_beats == SumLoop(data_section.numBeats, 0)
           IN  IF num_beats.kind = "raise" THEN Raise(0)
               ELSE IF num_beats.val # 0 THEN Ok(num_beats.val, <<>>)
               ELSE None(0, <<Error("is missing number of beats")>>)

\* -------------------------------------------------------------------- state

VARIABLES
  soup,               \* the parsed document (self.soup)
  version,            \* self.version
  pc,                 \* where the caller is: new, start, root, meta, fields,
                      \* sections, done (clips() returned), raised
  beats_per_measure,  \* clips(): what each document-level extractor did
  tonic,
  mode,
  youtube_id,
  meta_sections,      \* clips(): the two lists that zip() pairs
  data_sections,
  i,                  \* the next pair of the for loop (1-based)
  clips,              \* clips(): the list being built, and returned
  log,                \* the records handed to the logger, in order
  trace               \* per loop iteration: what the section extractors did

vars ==
  <<soup, version, pc, beats_per_measure, tonic, mode, youtube_id,
    meta_sections, data_sections, i, clips, log, trace>>

filename == "theorytab.xml"

\* An extractor that was not called.
NotCalled(v) == [kind |-> "unset", val |-> v, log |-> <<>>]

\* __init__: the version marker, "1.0" when absent or empty.
Construct ==
  /\ pc = "new"
  /\ version' = IF ~soup.version.elem \/ ~soup.version.has
                THEN "1.0" ELSE soup.version.s
  /\ pc' = "start"
  /\ UNCHANGED <<soup, beats_per_measure, tonic, mode, youtube_id,
                 meta_sections, data_sections, i, clips, log, trace>>

\* clips(), lines 178-181: root_element = self.soup.find(['theorytab', 'super']).
LocateRoot ==
  /\ pc = "start"
  /\ IF ~soup.root.elem
     THEN /\ log' = log \o <<Error("has no root element")>>
          /\ pc' = "done"
     ELSE /\ pc' = "root"
          /\ UNCHANGED log
  /\ UNCHANGED <<soup, version, beats_per_measure, tonic, mode, youtube_id,
                 meta_sections, data_sections, i, clips, trace>>

\* clips(), lines 182-185: meta_element = root_element.meta.
LocateMeta ==
  /\ pc = "root"
  /\ IF ~soup.root.meta.elem
     THEN /\ log' = log \o <<Error("has no meta element")>>
          /\ pc' = "done"
     ELSE /\ pc' = "meta"
          /\ UNCHANGED log
  /\ UNCHANGED <<soup, version, beats_per_measure, tonic, mode, youtube_id,
                 meta_sections, data_sections, i, clips, trace>>

\* clips(), lines 187-193: the four document-level extractors, in order; an
\* exception leaves the later ones uncalled.
ExtractFields ==
  /\ pc = "meta"
  /\ LET meta_element == soup.root.meta
         b == ExtractBeatsPerMeasure(meta_element)
         t == IF b.kind = "raise" THEN NotCalled(0) ELSE ExtractTonic(meta_element)
         m == IF b.kind = "raise" THEN NotCalled(0) ELSE ExtractMode(meta_element)
         y == IF b.kind = "raise" \/ m.kind = "raise"
              THEN NotCalled(<<>>) ELSE ExtractYoutubeId(meta_element)
     IN  /\ beats_per_measure' = b
         /\ tonic' = t
         /\ mode' = m
         /\ youtube_id' = y
         /\ log' = log \o b.log \o t.log \o m.log \o y.log
         /\ pc' = IF b.kind = "raise" \/ m.kind = "raise" THEN "raised"
                  ELSE IF "none" \in {b.kind, t.kind, m.kind, y.kind} THEN "done"
                  ELSE "fields"
  /\ UNCHANGED <<soup, version, meta_sections, data_sections, i, clips, trace>>

\* The children of a sections collection that are not NavigableStrings.
RECURSIVE Elements(_)
Elements(contents) ==
  IF contents = <<>> THEN <<>>
  ELSE IF Head(contents).text THEN Elements(Tail(contents))
  ELSE <<Head(contents)>> \o Elements(Tail(contents))

\* clips(), lines 195-207: find the sections.  None has no .contents: with a
\* sections child under meta and none under the root, AttributeError.
SplitSections ==
  /\ pc = "fields"
  /\ LET root_element == soup.root
         meta_element == soup.root.meta
     IN  IF meta_element.sections.elem
         THEN IF ~root_element.sections.elem
              THEN /\ pc' = "raised"
                   /\ UNCHANGED <<meta_sections, data_sections>>
              ELSE /\ meta_sections' = Elements(meta_element.sections.contents)
                   /\ data_sections' = Elements(root_element.sections.contents)
                   /\ pc' = "sections"
         ELSE /\ meta_sections' = <<meta_element>>
              /\ data_sections' = <<root_element.data>>
              /\ pc' = "sections"
  /\ i' = 1
  /\ UNCHANGED <<soup, version, beats_per_measure, tonic, mode, youtube_id,
                 clips, log, trace>>

Clip(start_time, end_time, num_beats) ==
  [data_source |-> filename,
   audio_source |-> [youtube_id |-> youtube_id.val,
                     start_time |-> start_time,
                     end_time |-> end_time],
   meter |-> [beats |-> num_beats,
              beats_per_measure |-> beats_per_measure.val],
   key |-> [tonic |-> tonic.val, mode |-> mode.val]]

\* clips(), lines 210-245: one iteration of the loop over
\* zip(meta_sections, data_sections).
ProcessSection ==
  /\ pc = "sections"
  /\ i <= Min(Len(meta_sections), Len(data_sections))
  /\ LET meta_section == meta_sections[i]
         data_section == data_sections[i]
         missing == ~meta_section.elem \/ ~data_section.elem
         mismatch == /\ ~missing
                     /\ meta_section.name # "meta"
                     /\ data_section.name # "data"
                     /\ meta_section.name # data_section.name
         warn == IF mismatch THEN <<Warning("section name mismatch: %s and %s")>>
                 ELSE <<>>
         interval == IF missing THEN NotCalled(<<0, 0>>)
                     ELSE ExtractTiming(meta_section)
         num_beats == IF interval.kind = "ok"
                      THEN ExtractNumBeats(data_section, beats_per_measure.val)
                      ELSE NotCalled(0)
     IN  /\ trace' = Append(trace, [index |-> i, missing |-> missing,
                                    interval |-> interval, num_beats |-> num_beats])
         /\ log' = log
                   \o (IF missing THEN <<Error("couldn't find meta or data section")>>
                       ELSE <<>>)
                   \o warn \o interval.log \o num_beats.log
         /\ clips' = IF num_beats.kind = "ok" /\ num_beats.val # 0
                     THEN Append(clips, Clip(interval.val[1], interval.val[2],
                                             num_beats.val))
                     ELSE clips
         /\ pc' = IF interval.kind = "raise" \/ num_beats.kind = "raise"
                  THEN "raised" ELSE "sections"
  /\ i' = i + 1
  /\ UNCHANGED <<soup, version, beats_per_measure, tonic, mode, youtube_id,
                 meta_sections, data_sections>>

\* clips(), lines 247-250: the loop is over; return clips.
Finish ==
  /\ pc = "sections"
  /\ i > Min(Len(meta_sections), Len(data_sections))
  /\ log' = IF clips = <<>> THEN log \o <<Error("has no clips")>> ELSE log
  /\ pc' = "done"
  /\ UNCHANGED <<soup, version, beats_per_measure, tonic, mode, youtube_id,
                 meta_sections, data_sections, i, clips, trace>>

Next ==
  \/ Construct
  \/ LocateRoot
  \/ LocateMeta
  \/ ExtractFields
  \/ SplitSections
  \/ ProcessSection
  \/ Finish

\* ---------------------------------------------------------------- documents

NoSections == [elem |-> FALSE, contents |-> <<>>]
Sections(contents) == [elem |-> TRUE, contents |-> contents]

\* An element with no field at all.
BlankElement ==
  [elem |-> TRUE, text |-> FALSE, name |-> "meta",
   beats_in_measure |-> NoElem, key |-> NoStr, mode |-> NoElem,
   YouTubeID |-> NoId,
   global_start |-> NoElem, active_start |-> NoElem, active_stop |-> NoElem,
   numMeasures |-> <<>>, numBeats |-> <<>>,
   sections |-> NoSections]

\* Python's None where an element was looked for.
NoneElement == [BlankElement EXCEPT !.elem = FALSE, !.name = ""]

\* A NavigableString among the children of a sections collection.
TextNode == [BlankElement EXCEPT !.text = TRUE, !.name = ""]

ValidId == <<"d", "Q", "w", "4", "w", "9", "W", "g", "X", "c", "Q">>

IdTexts ==
  {NoId, EmptyId, Id(<<"n", "u", "l", "l">>),
   Id(ValidId),
   Id(<<"a", "-", "b", "_", "c", "-", "d", "_", "e", "-", "0">>),
   Id(SubSeq(ValidId, 1, 10)),
   Id(ValidId \o <<"A">>),
   Id(ValidId \o <<"&", "t", "=", "1">>),
   Id([ValidId EXCEPT ![5] = "!"]),
   Id([ValidId EXCEPT ![11] = " "])}

KeyTexts ==
  {NoStr, EmptyStr} \cup
  {Str(n) : n \in DOMAIN NOTE_TO_PITCH_CLASS \cup {"H", "c", "Cbb", "C ", "do"}}

\* global_start, active_start, active_stop of a section: 10, 2, 18 seconds
\* and the ways they go wrong.
Timings ==
  {<<Num(20), Num(4), Num(36)>>,
   <<Num(20), Num(36), Num(4)>>,
   <<Num(20), Num(4), NoElem>>,
   <<Num(20), Num(4), BadText>>}

TimingsWide ==
  Timings \cup
  {<<Num(1), Num(3), Num(3)>>,
   <<Num(20), Num(4), NoText>>,
   <<NoElem, Num(4), Num(36)>>,
   <<BadText, Num(4), Num(36)>>,
   <<Num(-20), Num(4), Num(36)>>}

Timed(element, t) ==
  [element EXCEPT !.global_start = t[1], !.active_start = t[2],
                  !.active_stop = t[3]]

\* numMeasures and numBeats of a data section.
Counts ==
  {<<<<Num(4), Num(6)>>, <<>>>>,
   <<<<Num(0)>>, <<>>>>,
   <<<<Num(-4)>>, <<Num(10)>>>>,
   <<<<BadText>>, <<Num(10)>>>>}

Counted(element, c) == [element EXCEPT !.numMeasures = c[1], !.numBeats = c[2]]

CountTexts == {NoText, BadText, Num(0), Num(4), Num(5), Num(-4)}

GoodFields ==
  [BlankElement EXCEPT !.beats_in_measure = Num(8), !.key = Str("C"),
                       !.mode = Num(12), !.YouTubeID = Id(ValidId)]

GoodMeta == Timed(GoodFields, <<Num(20), Num(4), Num(36)>>)

GoodData == Counted([BlankElement EXCEPT !.name = "data"], <<<<Num(4), Num(6)>>, <<>>>>)

Document(v, root) == [version |-> v, root |-> root]

Root(meta, sections, data) ==
  [elem |-> TRUE, name |-> "theorytab", meta |-> meta, sections |-> sections,
   data |-> data]

NoRoot ==
  [elem |-> FALSE, name |-> "", meta |-> NoneElement, sections |-> NoSections,
   data |-> NoneElement]

VersionTexts == {NoStr, EmptyStr, Str("1.1"), Str("1.2"), Str("1.3")}

\* One section per document (version >= 1.2 documents): structure.
StructureDocuments ==
  \E v \in VersionTexts,
     r \in {NoRoot,
            Root(NoneElement, NoSections, GoodData),
            Root(GoodMeta, NoSections, NoneElement),
            Root(GoodMeta, NoSections, GoodData)} :
    soup = Document(v, r)

\* Several sections per document (version <= 1.1 documents) as the nested
\* collections hold them.
MetaSection(t) == Timed([BlankElement EXCEPT !.name = "section"], t)
DataSection(c) == Counted([BlankElement EXCEPT !.name = "section"], c)

RECURSIVE Interleave(_)
Interleave(elements) ==
  IF elements = <<>> THEN <<TextNode>>
  ELSE <<TextNode, Head(elements)>> \o Interleave(Tail(elements))

SectionDocuments ==
  \E v \in {NoStr, Str("1.2")},
     ts \in SeqUpTo(Timings, MaxSections),
     hasData \in BOOLEAN,
     cs \in SeqUpTo(Counts, MaxSections) :
    /\ ~hasData => cs = <<>>
    /\ soup =
         Document(v,
           Root([GoodFields EXCEPT !.sections =
                   Sections([k \in DOMAIN ts |-> MetaSection(ts[k])])],
                IF hasData
                THEN Sections([k \in DOMAIN cs |-> DataSection(cs[k])])
                ELSE NoSections,
                NoneElement))

\* The same with whitespace text between the children, and with the tag
\* names the name check reads.
WhitespaceDocuments ==
  \E n \in 0..MaxSections, m \in 0..MaxSections,
     t \in Timings, c \in Counts,
     mn \in {"meta", "section"}, dn \in {"data", "section", "part"} :
    soup =
      Document(Str("1.1"),
        Root([GoodFields EXCEPT !.sections =
                Sections(Interleave([k \in 1..n |->
                  [MetaSection(t) EXCEPT !.name = mn]]))],
             Sections(Interleave([k \in 1..m |->
                  [DataSection(c) EXCEPT !.name = dn]])),
             NoneElement))

\* The document-level fields, over one section and over nested sections.
FieldDocuments ==
  \E b \in {NoElem, NoText, BadText, Num(8), Num(0), Num(-4), Num(1), Num(7)},
     k \in {NoStr, EmptyStr, Str("C"), Str("H")},
     m \in {NoElem, NoText, BadText, Num(12), Num(0), Num(16), Num(2)},
     y \in IdTexts,
     layout \in
       {<<GoodMeta, NoSections, GoodData>>,
        <<[BlankElement EXCEPT !.sections =
             Sections(<<MetaSection(<<Num(20), Num(4), Num(36)>>),
                        MetaSection(<<Num(20), Num(4), NoElem>>)>>)],
          Sections(<<DataSection(<<<<Num(4)>>, <<>>>>),
                     DataSection(<<<<>>, <<>>>>)>>),
          NoneElement>>} :
    soup =
      Document(NoStr,
        Root([layout[1] EXCEPT !.beats_in_measure = b, !.key = k,
                               !.mode = m, !.YouTubeID = y],
             layout[2], layout[3]))

\* Every key spelling, every mode.
KeyDocuments ==
  \E k \in KeyTexts, m \in {NoElem} \cup {Num(2 * n) : n \in 0..8} :
    soup =
      Document(NoStr,
        Root([GoodMeta EXCEPT !.key = k, !.mode = m], NoSections, GoodData))

\* Every timing of one section.
TimingDocuments ==
  \E t \in TimingsWide :
    soup = Document(NoStr, Root(Timed(GoodFields, t), NoSections, GoodData))

\* The beat counts of one data section.
CountDocuments ==
  \E b \in {Num(8), Num(5)},
     nm \in SeqUpTo(CountTexts, MaxFields),
     nb \in SeqUpTo(CountTexts, MaxFields) :
    soup =
      Document(NoStr,
        Root([GoodMeta EXCEPT !.beats_in_measure = b], NoSections,
             Counted(GoodData, <<nm, nb>>)))

\* A field found only inside the first nested section: find() is recursive.
NestedFieldDocuments ==
  \E m \in {NoElem, BadText, Num(4), Num(18)} :
    soup =
      Document(NoStr,
        Root([[GoodFields EXCEPT !.mode = NoElem] EXCEPT !.sections =
                Sections(<<[MetaSection(<<Num(20), Num(4), Num(36)>>)
                              EXCEPT !.mode = m],
                           MetaSection(<<Num(20), Num(4), Num(36)>>)>>)],
             Sections(<<DataSection(<<<<Num(4)>>, <<>>>>),
                        DataSection(<<<<Num(4)>>, <<>>>>)>>),
             NoneElement))

\* The documents a Theorytab is constructed from.
Documents ==
  \/ StructureDocuments
  \/ SectionDocuments
  \/ WhitespaceDocuments
  \/ FieldDocuments
  \/ KeyDocuments
  \/ TimingDocuments
  \/ CountDocuments
  \/ NestedFieldDocuments

Init ==
  /\ Documents
  /\ version = ""
  /\ pc = "new"
  /\ beats_per_measure = NotCalled(0)
  /\ tonic = NotCalled(0)
  /\ mode = NotCalled(0)
  /\ youtube_id = NotCalled(<<>>)
  /\ meta_sections = <<>>
  /\ data_sections = <<>>
  /\ i = 1
  /\ clips = <<>>
  /\ log = <<>>
  /\ trace = <<>>

Spec == Init /\ [][Next]_vars

\* ------------------------------------------------------------------- claims

Terminated == pc \in {"done", "raised"}

\* The document reaches the document-level extractors.
HasMeta == soup.root.elem /\ soup.root.meta.elem

\* The messages of the section loop (lines 212, 217, 137, 168).
SectionDiagnostics ==
  {"couldn't find meta or data section", "section name mismatch: %s and %s",
   "is missing global_start, active_start, or active_stop",
   "is missing number of beats"}

Logged(msgs) == \E k \in 1..Len(log) : log[k].msg \in msgs

\* C1: for every document clips() returns a list and never raises, also when
\* a numeric field holds text that is not a number and when meta has a
\* sections child and the root has none.
C1_NeverRaises == pc # "raised"

\* C2: when one of the four document-level fields fails to extract, clips()
\* returns the empty list, no section is processed and no section-level
\* diagnostic is emitted.
C2_DocumentLevelAbort ==
  (/\ Terminated
   /\ HasMeta
   /\ \/ ExtractBeatsPerMeasure(soup.root.meta).kind = "none"
      \/ ExtractTonic(soup.root.meta).kind = "none"
      \/ ExtractMode(soup.root.meta).kind = "none"
      \/ ExtractYoutubeId(soup.root.meta).kind = "none")
  => (/\ pc = "done"
      /\ clips = <<>>
      /\ trace = <<>>
      /\ ~Logged(SectionDiagnostics))

\* The sections the splitter pairs, read off the document.
PairedMeta ==
  IF soup.root.meta.sections.elem
  THEN Elements(soup.root.meta.sections.contents)
  ELSE <<soup.root.meta>>

PairedData ==
  IF soup.root.meta.sections.elem
  THEN Elements(soup.root.sections.contents)
  ELSE <<soup.root.data>>

PairCount == Min(Len(PairedMeta), Len(PairedData))

\* Pair k yields a clip: both sections exist and both extractions succeed.
Succeeds(k) ==
  /\ PairedMeta[k].elem
  /\ PairedData[k].elem
  /\ ExtractTiming(PairedMeta[k]).kind = "ok"
  /\ ExtractNumBeats(PairedData[k], beats_per_measure.val).kind = "ok"

ClipOf(k) ==
  Clip(ExtractTiming(PairedMeta[k]).val[1], ExtractTiming(PairedMeta[k]).val[2],
       ExtractNumBeats(PairedData[k], beats_per_measure.val).val)

RECURSIVE ExpectedClips(_)
ExpectedClips(k) ==
  IF k = 0 THEN <<>>
  ELSE IF Succeeds(k) THEN Append(ExpectedClips(k - 1), ClipOf(k))
  ELSE ExpectedClips(k - 1)

AllFieldsOk ==
  /\ beats_per_measure.kind = "ok"
  /\ tonic.kind = "ok"
  /\ mode.kind = "ok"
  /\ youtube_id.kind = "ok"

\* C3: when the document-level fields succeed, clips() returns exactly the
\* clips of the pairs whose timing and num_beats extraction succeed, in
\* document order; a failing section costs no other section its clip.
C3_SectionIsolation ==
  (Terminated /\ AllFieldsOk)
  => (pc = "done" /\ clips = ExpectedClips(PairCount))

\* C4: every returned clip has start_time < end_time.
C4_StartBeforeEnd ==
  pc = "done" =>
    \A k \in 1..Len(clips) :
      clips[k].audio_source.start_time < clips[k].audio_source.end_time

\* C5: every returned clip has positive meter.beats and positive
\* meter.beats_per_measure.
C5_PositiveMeter ==
  pc = "done" =>
    \A k \in 1..Len(clips) :
      clips[k].meter.beats > 0 /\ clips[k].meter.beats_per_measure > 0

\* The sum of the fields that hold a number, each rounded.
RECURSIVE SumOfFields(_)
SumOfFields(elements) ==
  IF elements = <<>> THEN 0
  ELSE (IF Head(elements).has /\ Head(elements).isnum
        THEN Round(Head(elements).h) ELSE 0) + SumOfFields(Tail(elements))

SomeWithoutText(elements) == \E k \in 1..Len(elements) : ~elements[k].has

SomeNotNumeric(elements) ==
  \E k \in 1..Len(elements) : elements[k].has /\ ~elements[k].isnum

\* The two-tier rule on the totals M and B.
TwoTier(M, B, bpm) ==
  IF M # 0 THEN Ok(M * bpm, <<>>)
  ELSE IF B # 0 THEN Ok(B, <<>>)
  ELSE None(0, <<Error("is missing number of beats")>>)

\* C6 as stated: M and B are the sums of all numMeasures and all numBeats
\* fields, and the result of _extract_num_beats is the two-tier rule on them.
C6_TwoTierOfSums ==
  \A k \in 1..Len(trace) :
    trace[k].num_beats.kind \in {"ok", "none"} =>
      trace[k].num_beats =
        TwoTier(SumOfFields(data_sections[trace[k].index].numMeasures),
                SumOfFields(data_sections[trace[k].index].numBeats),
                beats_per_measure.val)

\* A total of _extract_num_beats: 0 when a field of the list has no text.
Total(elements) == IF SomeWithoutText(elements) THEN 0 ELSE SumOfFields(elements)

\* C6 amended: the result of _extract_num_beats is the two-tier rule on M
\* and B, where M (and likewise B) is the sum of the rounded numMeasures
\* fields, taken as 0 when some numMeasures field has no text; the call
\* raises only when a field holds text that is not a number.
C6_TwoTierOfTotals ==
  \A k \in 1..Len(trace) :
    LET d == data_sections[trace[k].index]
    IN  /\ trace[k].num_beats.kind \in {"ok", "none"} =>
             trace[k].num_beats =
               TwoTier(Total(d.numMeasures), Total(d.numBeats),
                       beats_per_measure.val)
        /\ trace[k].num_beats.kind = "raise" =>
             SomeNotNumeric(d.numMeasures) \/ SomeNotNumeric(d.numBeats)

\* C6 witness: numMeasures 2 and an empty field, numBeats 2.5 and 2: the
\* measures count for nothing and the result is the 4 beats.
C6_Witness ==
  /\ pc = "done"
  /\ soup.root.data.numMeasures = <<Num(4), NoText>>
  /\ soup.root.data.numBeats = <<Num(5), Num(4)>>
  /\ Len(trace) = 1
  /\ trace[1].num_beats = Ok(4, <<>>)
  /\ Len(clips) = 1
  /\ clips[1].meter.beats = 4

\* C7: the video id extractor succeeds only for exactly 11 characters, each
\* a letter, a digit, a dash or an underscore.
C7_ElevenCharacters ==
  youtube_id.kind = "ok" =>
    /\ Len(youtube_id.val) = IdLength
    /\ \A k \in 1..Len(youtube_id.val) : youtube_id.val[k] \in IdChars

\* A diagnostic noting unequal section counts.
SectionCountDiagnostics == {"section count mismatch: %d and %d"}

\* C8: with nested sections of unequal counts, pairing is positional and
\* stops at the shorter list, and a diagnostic notes the discrepancy.
C8_TruncatedPairing ==
  (/\ pc = "done"
   /\ AllFieldsOk
   /\ soup.root.meta.sections.elem
   /\ Len(meta_sections) # Len(data_sections))
  => (/\ Len(clips) <= Min(Len(meta_sections), Len(data_sections))
      /\ Len(trace) = Min(Len(meta_sections), Len(data_sections))
      /\ \A k \in 1..Len(trace) : trace[k].index = k
      /\ Logged(SectionCountDiagnostics))

\* C9: a document of version 1.2 or above yields at most one clip.
C9_SingleSectionAboveCutoff ==
  (pc = "done" /\ version \in {"1.2", "1.3"}) => Len(clips) <= 1

\* The pitch classes as documented.
DocumentedPitchClass(n) ==
  CASE n \in {"C", "B#"} -> 0
    [] n \in {"C#", "Db"} -> 1
    [] n = "D" -> 2
    [] n \in {"D#", "Eb"} -> 3
    [] n \in {"E", "Fb"} -> 4
    [] n \in {"E#", "F"} -> 5
    [] n \in {"F#", "Gb"} -> 6
    [] n = "G" -> 7
    [] n \in {"G#", "Ab"} -> 8
    [] n = "A" -> 9
    [] n \in {"A#", "Bb"} -> 10
    [] n \in {"B", "Cb"} -> 11

DocumentedSpellings ==
  {"C", "C#", "Db", "D", "D#", "Eb", "E", "E#", "Fb", "F", "F#", "Gb", "G",
   "G#", "Ab", "A", "A#", "Bb", "B", "B#", "Cb"}

\* C10: the tonic extractor returns the documented pitch class for each of
\* the 21 spellings, fails for an absent key and for any other string, and
\* every returned clip has key.tonic in 0..11.
C10_TonicTable ==
  /\ tonic.kind # "unset" =>
       LET key_element == Find(soup.root.meta, "key", NoStr)
       IN  IF key_element.elem /\ key_element.has
              /\ key_element.s \in DocumentedSpellings
           THEN tonic.kind = "ok"
                /\ tonic.val = DocumentedPitchClass(key_element.s)
           ELSE tonic.kind = "none"
  /\ pc = "done" => \A k \in 1..Len(clips) : clips[k].key.tonic \in 0..11

\* C10 witness: the key B# gives a clip of tonic 0.
C10_Witness ==
  /\ pc = "done"
  /\ Find(soup.root.meta, "key", NoStr) = Str("B#")
  /\ Len(clips) = 1
  /\ clips[1].key.tonic = 0

====
